---- MODULE Spec2Model ----
(***************************************************************************)
(* Model of Tail-seq_polyA_tail_length_estimation_from_HMM_Multi_          *)
(* processing_v15.py: the intensity conversion (Convert2T, worker_C2T),    *)
(* the tail-length caller (worker_hmm), the two chunked multiprocessing    *)
(* loops, the construction of the master dictionary, the choice of the     *)
(* training set, lines_sampler, and the order of input checks, file        *)
(* creations and processing blocks at the start of a run.                  *)
(*                                                                         *)
(* Python indices are 0-based, TLA+ sequences 1-based: Python's x[i] is    *)
(* x[i+1] here.  start_idx, end_idx and the entries of non_A_index_lst     *)
(* keep their Python (0-based) values.                                     *)
(*                                                                         *)
(* Floating point values are carried as integers: a base-2 logarithm is    *)
(* rounded down to an integer, and a mean of such values is rounded down   *)
(* too.  The normalization means are kept exact, as sum and count.         *)
(***************************************************************************)
EXTENDS Integers, Sequences, FiniteSets, TLC

(***************************************************************************)
(* params (the values of the script where the model can afford them, small *)
(* values for the sizes that only scale the input)                         *)
(***************************************************************************)
bound == 5

all_zero_limit == 5

non_T_limit == 2

check_pa_tail == FALSE

\* model.N: the five states of pi and of the transition matrix
N == 5

\* the layout of an intensity line: read 1 has r1_len positions, of which
\* r1_nor_start .. r1_nor_end are the normalization window; the signal region
\* starts dis2T positions into read 2
r1_len == 7

r1_nor_start == 2

r1_nor_end == 6

dis2T == 0

\* the pool size and the lines per worker of the two chunked loops
n_threads == 2

chunk_lines == 2

\* the longest decoded state path drawn
MaxPathLen == 5

\* the longest input file of a chunked loop
MaxLines == 9

\* the longest read-to-gene stream, and the identifiers in it
MaxStream == 4

MaxIdx == 2

\* the longest read 2 (signal region) drawn
MaxSignalLen == 6

\* the reads whose intensities are all one constant k: the largest k and
\* the longest read 2 drawn
MaxK == 3

MaxFlatLen == 3

\* the size of the training set: training_ratio is kept in hundredths (0.01
\* is 1, 0.1 is 10), training_min and training_max are scaled down
training_ratio_0 == 1

training_min == 3

training_max == 6

\* the pools drawn have up to training_min + 2 records, or a multiple of
\* PoolStep records up to MaxPoolSteps * PoolStep
PoolStep == 50

MaxPoolSteps == 14

\* mode 2: the bytes a line of the T-signal file may have
MaxLineSize == 3

\* lines_sampler: the longest file drawn, in lines, and the largest sample
\* asked for
MaxFileLines == 3

MaxSample == 3

VARIABLES
    \* worker_hmm, one line at a time
    states,       \* the state path viterbi returned for the current line
    hmm_pc,       \* "viterbi" | "decoded" | "called" | "exit"
    start_idx,
    end_idx,
    tl,
    \* worker_C2T on one chunk
    mdict,        \* master dictionary: idx -> <<gene>> or <<gene, read 1 bases, qc>>
    train_keys,   \* the idx picked for training
    lines,        \* the chunk handed to the worker
    c2t_pc,       \* "start" | "returned"
    temp_dict,    \* the worker's dictionary, as a sequence of [key, gene, all_T]
    temp_lst,     \* the worker's list of training vectors
    c2t_at,       \* per line of the chunk, where Convert2T returned
    \* the chunked loops (conversion: phase "C2T", decoding: phase "hmm")
    phase,
    input,        \* the lines of r2_intensity / Tsignal_input
    nread,        \* how many of them readline() has returned
    line_lst,
    counting,
    futures,      \* the futures of pool.map: [chunk, status, result]
    merged,       \* how many results the for loop over futures has consumed
    batch_no,     \* how many times pool.map was called
    loop_pc,      \* "read" | "batch" | "last_batch" | "after" | "done" |
                  \* "exiting" | "aborted"
    train_set,
    output_Tsignal,
    lst_tl,
    output_all,
    output_states,
    output_median,
    output_mean,
    \* the construction of the master dictionary
    dict_dup,     \* the idx found in mdict again
    stream_seen,  \* the <<idx, gene>> pairs read from the stream so far
    dict_pc,      \* "reading" | "built"
    \* the choice of the training set
    run_mode,     \* 1: from the raw inputs, 2: from a T-signal file
    args_t,       \* args.t: "fish" | "human" | "all"
    training_ratio, \* params['training_ratio'], in hundredths
    sele_P,       \* records of the restricted pool (sele_dict / sele_Tsignal_file)
    all_P,        \* records of the full pool (mdict / Tsignal_file)
    line_size,    \* mode 2: bytes of a file's first line
    rest_size,    \* mode 2: bytes of each later line
    n_train_lines,
    picked_from,  \* "none" | "sele" | "all"
    T_lines,      \* mode 2: the estimated number of lines of the pool
    train_pc,     \* "select" | "fellback" | "estimated" | "picked" | "exit" |
                  \* "error"
    \* the start of a run: arguments, input checks, files created
    args_given,   \* the file arguments given on the command line
    s_exists,     \* os.path.isfile(args.s)
    bad_type,     \* the arguments whose file fread cannot read
    created,      \* the output files opened for writing so far
    steps_run,    \* the processing steps run so far
    exit_msg,     \* the message of sys.exit, "" when none
    start_pc,
    \* lines_sampler
    file_lines,     \* the file: the number of bytes of each line
    n_lines_sample,
    random_set,     \* the sorted byte offsets drawn
    sample,         \* the lines appended, by their number in the file
    sample_i,       \* the i of the for loop
    sampler_pc      \* "start" | "loop" | "returned" | "error"

varsTail == <<states, hmm_pc, start_idx, end_idx, tl>>

varsC2T == <<mdict, train_keys, lines, c2t_pc, temp_dict, temp_lst, c2t_at>>

varsOut == <<train_set, output_Tsignal, lst_tl, output_all, output_states,
             output_median, output_mean>>

varsLoop == <<phase, input, nread, line_lst, counting, futures, merged, batch_no,
              loop_pc, varsOut>>

varsDict == <<dict_dup, stream_seen, dict_pc>>

varsTrain == <<run_mode, args_t, training_ratio, sele_P, all_P, line_size, rest_size,
               n_train_lines, picked_from, T_lines, train_pc>>

varsStart == <<args_given, s_exists, bad_type, created, steps_run, exit_msg, start_pc>>

varsSampler == <<file_lines, n_lines_sample, random_set, sample, sample_i, sampler_pc>>

varsMore == <<varsTrain, varsStart, varsSampler>>

varsCore == <<varsTail, varsC2T, varsLoop, varsDict>>

vars == <<varsTail, varsC2T, varsLoop, varsDict, varsMore>>

(***************************************************************************)
(* Helpers                                                                 *)
(***************************************************************************)
RECURSIVE SeqsUpTo(_, _)
SeqsUpTo(S, n) ==
    IF n = 0 THEN {<<>>}
    ELSE LET shorter == SeqsUpTo(S, n - 1)
         IN  shorter \cup {Append(s, x) : s \in {t \in shorter : Len(t) = n - 1}, x \in S}


(***************************************************************************)
(* Convert2T                                                               *)
(***************************************************************************)
\* a value of all_T: a number, the marker 'empty', or numpy's nan
Num(x) == [kind |-> "num", v |-> x]

Empty == [kind |-> "empty", v |-> 0]

NaN == [kind |-> "nan", v |-> 0]

Keys == {"A", "C", "G", "T"}

\* dict_4c = {'A':lst4c[0], 'C':lst4c[1], 'G':lst4c[2], 'T':lst4c[3]}
Channel(key) ==
    CASE key = "A" -> 1
      [] key = "C" -> 2
      [] key = "G" -> 3
      [] key = "T" -> 4

RECURSIVE SumOver(_, _)
SumOver(S, f) ==
    IF S = {} THEN 0
    ELSE LET x == CHOOSE y \in S : TRUE
         IN  f[x] + SumOver(S \ {x}, f)

BucketWholeRead(line, bases, key) ==
    {i \in 1 .. r1_len :
        /\ bases[i] = key
        /\ line.r1[i][Channel(key)] > 0}

\* the positions i of the window whose called base is key with
\* dict_4c[base] > 0: the ones appended to dict_value[key]
Bucket(line, bases, key) ==
    {i \in r1_nor_start .. r1_nor_end :
        /\ bases[i] = key
        /\ line.r1[i][Channel(key)] > 0}

dict_valueSum(line, bases) ==
    [key \in Keys |->
        LET b == Bucket(line, bases, key)
        IN  [s |-> SumOver(b, [i \in b |-> line.r1[i][Channel(key)]]),
             c |-> 1]]

\* numpy.mean(dict_value[key]), kept exact as sum s over count c
dict_value(line, bases) ==
    [key \in Keys |->
        LET b == Bucket(line, bases, key)
        IN  [s |-> SumOver(b, [i \in b |-> line.r1[i][Channel(key)]]),
             c |-> Cardinality(b)]]

\* math.log(x, 2) of x = num / den > 0, rounded down
RECURSIVE Log2Floor(_, _)
Log2Floor(num, den) ==
    IF num >= den
    THEN IF num >= 2 * den THEN 1 + Log2Floor(num, 2 * den) ELSE 0
    ELSE Log2Floor(2 * num, den) - 1

\* max(-params['bound'], min(T_signal, params['bound']))
Clip(x) ==
    LET lo == IF x < bound THEN x ELSE bound
    IN  IF lo > -bound THEN lo ELSE -bound

\* the normalized intensity of one channel, as the fraction n / d:
\* 1.0 / dict_value[key] when the raw value is <= 0, else value / dict_value[key]
Normalized(v, m) ==
    [n |-> (IF v <= 0 THEN 1 ELSE v) * m.c, d |-> m.s]

\* the converted value of one position that is not all zero
T_signal(lst4c, dv) ==
    LET a == Normalized(lst4c[1], dv["A"])
        c == Normalized(lst4c[2], dv["C"])
        g == Normalized(lst4c[3], dv["G"])
        t == Normalized(lst4c[4], dv["T"])
        num == t.n * a.d * c.d * g.d
        den == t.d * (a.n * c.d * g.d + c.n * a.d * g.d + g.n * a.d * c.d)
    IN  Clip(Log2Floor(num, den))

\* one element of all_T, before the imputation
ConvertPosition(lst4c, dv) ==
    IF lst4c = <<0, 0, 0, 0>> THEN Empty ELSE Num(T_signal(lst4c, dv))

\* the signal region: fields 5 + r1_len + dis2T .. len(lst) of the line
SignalRegion(line) == SubSeq(line.r2, dis2T + 1, Len(line.r2))

RECURSIVE SumSeq(_)
SumSeq(q) == IF Len(q) = 0 THEN 0 ELSE q[1].v + SumSeq(Tail(q))

\* numpy.mean of a list of values: nan for the empty list and for a list
\* that holds a nan
Mean(q) ==
    IF Len(q) = 0 THEN NaN
    ELSE IF \E i \in 1 .. Len(q) : q[i].kind = "nan" THEN NaN
    ELSE Num(SumSeq(q) \div Len(q))

\* [x for x in sliding_T if x != 'empty']
NotEmpty(q) == SelectSeq(q, LAMBDA x : x.kind # "empty")

SlidingSymmetric(all_T, k) ==
    SubSeq(all_T,
           (IF k - all_zero_limit > 0 THEN k - all_zero_limit ELSE 0) + 1,
           IF k + all_zero_limit + 1 < Len(all_T) THEN k + all_zero_limit + 1 ELSE Len(all_T))

\* all_T[max(0, k - L) : min(len(all_T), k + L)], k the Python index
Sliding(all_T, k) ==
    SubSeq(all_T,
           (IF k - all_zero_limit > 0 THEN k - all_zero_limit ELSE 0) + 1,
           IF k + all_zero_limit < Len(all_T) THEN k + all_zero_limit ELSE Len(all_T))

\* for k in range(len(all_T)): the imputation, in place
RECURSIVE Impute(_, _)
Impute(all_T, k) ==
    IF k >= Len(all_T) THEN all_T
    ELSE IF all_T[k + 1].kind = "empty"
         THEN Impute([all_T EXCEPT ![k + 1] = Mean(NotEmpty(Sliding(all_T, k)))], k + 1)
         ELSE Impute(all_T, k + 1)

\* all_T.count('empty')
CountEmpty(all_T) == Cardinality({k \in 1 .. Len(all_T) : all_T[k].kind = "empty"})

TooManyEmptyGt(all_T) == CountEmpty(all_T) > all_zero_limit

\* all_T.count('empty') >= params['all_zero_limit']
TooManyEmpty(all_T) == CountEmpty(all_T) >= all_zero_limit

\* some dict_value[key] is empty after the window
NormalizationFails(line, bases) ==
    \E key \in Keys : Bucket(line, bases, key) = {}

\* Convert2T(line): ret is "None" or "vector"; at is the return statement
\* reached ("normalize": line 185, "all_zero": line 213, "end": line 223)
Convert2T(line, md) ==
    LET bases == md[line.idx][2]
    IN  IF NormalizationFails(line, bases)
        THEN [ret |-> "None", at |-> "normalize", all_T |-> <<>>]
        ELSE LET dv == dict_value(line, bases)
                 region == SignalRegion(line)
                 all_T == [k \in 1 .. Len(region) |-> ConvertPosition(region[k], dv)]
             IN  IF TooManyEmpty(all_T)
                 THEN [ret |-> "None", at |-> "all_zero", all_T |-> <<>>]
                 ELSE [ret |-> "vector", at |-> "end",
                       all_T |-> <<Num(bound * 100)>> \o Impute(all_T, 0)]

(***************************************************************************)
(* worker_C2T                                                              *)
(***************************************************************************)
HasKey(d, key) == \E i \in 1 .. Len(d) : d[i].key = key

\* the loop of worker_C2T from line n of the chunk on
RECURSIVE worker_C2T_from(_, _, _, _, _, _)
worker_C2T_from(ls, n, md, tk, d, l) ==
    IF n > Len(ls) THEN [temp_dict |-> d, temp_lst |-> l]
    ELSE LET line == ls[n]
             idx == line.idx
         IN  IF idx \notin DOMAIN md
             THEN worker_C2T_from(ls, n + 1, md, tk, d, l)
             ELSE LET temp == Convert2T(line, md)
                  IN  IF temp.ret = "vector"
                      THEN worker_C2T_from(ls, n + 1, md, tk,
                               IF HasKey(d, idx) THEN d
                               ELSE Append(d, [key |-> idx, gene |-> md[idx][1],
                                               all_T |-> temp.all_T]),
                               IF idx \in tk THEN Append(l, temp.all_T) ELSE l)
                      ELSE worker_C2T_from(ls, n + 1, md, tk, d, l)

worker_C2T(ls, md, tk) == worker_C2T_from(ls, 1, md, tk, <<>>, <<>>)

\* where Convert2T returned for each line ("skipped": idx not in mdict)
ReturnedAt(ls, md) ==
    [n \in 1 .. Len(ls) |->
        IF ls[n].idx \in DOMAIN md THEN Convert2T(ls[n], md).at ELSE "skipped"]

(***************************************************************************)
(* The intensity lines drawn                                               *)
(***************************************************************************)
\* q cycled to offset o (0-based)
Cycle(q, o) == q[(o % Len(q)) + 1]

InWindow(i) == r1_nor_start <= i /\ i <= r1_nor_end

\* Read 1 over the normalization window: the called bases b and the
\* intensity v of the called base's channel, by offset into the window.
\* Outside the window every position is a T called at intensity 7.
NorPatterns ==
    { [b |-> <<"A", "C", "G", "T", "A">>, v |-> <<2, 2, 2, 2, 2>>],
      [b |-> <<"A", "C", "G", "T", "A">>, v |-> <<1, 2, 4, 2, 3>>],
      [b |-> <<"A", "C", "G", "T", "A">>, v |-> <<2, 2, 2, 0, 2>>],
      [b |-> <<"A", "C", "G", "T", "A">>, v |-> <<2, 2, 2, -1, 2>>],
      [b |-> <<"A", "C", "G", "N", "A">>, v |-> <<2, 2, 2, 2, 2>>],
      [b |-> <<"A", "A", "G", "T", "A">>, v |-> <<1, 3, 2, 2, 2>>] }

\* mdict[idx][1]: the untrimmed read 1 sequence
BasesOf(pat) ==
    [i \in 1 .. r1_len |->
        IF InWindow(i) THEN Cycle(pat.b, i - r1_nor_start) ELSE "T"]

\* the read 1 intensity fields of the line
R1Of(pat) ==
    [i \in 1 .. r1_len |->
        IF ~InWindow(i) THEN <<7, 7, 7, 7>>
        ELSE LET base == Cycle(pat.b, i - r1_nor_start)
             IN  IF base \notin Keys THEN <<3, 3, 3, 3>>
                 ELSE [ch \in 1 .. 4 |->
                          IF ch = Channel(base) THEN Cycle(pat.v, i - r1_nor_start) ELSE 1]]

\* the four intensities A, C, G, T of one read 2 position
SignalTuples == {<<0, 0, 0, 0>>, <<1, 1, 1, 8>>, <<0, 0, 0, 200>>}

Signals == SeqsUpTo(SignalTuples, MaxSignalLen)

\* one line with its entry of mdict: known says whether idx is in mdict,
\* train whether it is in train_keys
\* flat is 0, or the constant k every intensity of read 1 is equal to
Reads == [pat : NorPatterns, sig : Signals, known : {TRUE}, train : {TRUE}, flat : {0}]

FlatPatterns == {pat \in NorPatterns : pat.v = <<2, 2, 2, 2, 2>>}

FlatReads ==
    UNION {[pat : FlatPatterns,
            sig : SeqsUpTo({<<k, k, k, k>>, <<0, 0, 0, 0>>, <<1, 1, 1, 8>>}, MaxFlatLen),
            known : {TRUE}, train : {TRUE}, flat : {k}] : k \in 1 .. MaxK}

SmallSignals ==
    {<<>>, <<<<0, 0, 0, 0>>>>, <<<<1, 1, 1, 8>>, <<200, 200, 200, -3>>>>,
     <<<<2, 2, 2, 2>>, <<0, 0, 0, 0>>, <<0, 0, 0, 200>>>>,
     [k \in 1 .. all_zero_limit |-> <<0, 0, 0, 0>>]}

SmallReads ==
    [pat : NorPatterns, sig : SmallSignals, known : BOOLEAN, train : BOOLEAN, flat : {0}]

\* a chunk of one line out of all, or of two lines out of the small ones
Chunks ==
    {<<r>> : r \in Reads \cup FlatReads}
        \cup {<<r1, r2>> : r1 \in SmallReads, r2 \in SmallReads}

GeneOf(n) == IF n % 2 = 1 THEN "geneA" ELSE "geneB"

LineOf(n, read) ==
    [idx |-> n,
     r1 |-> IF read.flat > 0
            THEN [i \in 1 .. r1_len |-> <<read.flat, read.flat, read.flat, read.flat>>]
            ELSE R1Of(read.pat),
     r2 |-> read.sig]

IdleTrain ==
    /\ run_mode = 0
    /\ args_t = "all"
    /\ training_ratio = training_ratio_0
    /\ sele_P = 0
    /\ all_P = 0
    /\ line_size = 0
    /\ rest_size = 0
    /\ n_train_lines = 0
    /\ picked_from = "none"
    /\ T_lines = 0
    /\ train_pc = "idle"

IdleStart ==
    /\ args_given = {}
    /\ s_exists = FALSE
    /\ bad_type = {}
    /\ created = {}
    /\ steps_run = {}
    /\ exit_msg = ""
    /\ start_pc = "idle"

IdleSampler ==
    /\ file_lines = <<>>
    /\ n_lines_sample = 0
    /\ random_set = <<>>
    /\ sample = <<>>
    /\ sample_i = 0
    /\ sampler_pc = "idle"

IdleMore == IdleTrain /\ IdleStart /\ IdleSampler

IdleDict ==
    /\ dict_dup = {}
    /\ stream_seen = <<>>
    /\ dict_pc = "idle"

IdleLoop ==
    /\ phase = "idle"
    /\ input = <<>>
    /\ nread = 0
    /\ line_lst = <<>>
    /\ counting = 0
    /\ futures = <<>>
    /\ merged = 0
    /\ batch_no = 0
    /\ loop_pc = "idle"
    /\ train_set = <<>>
    /\ output_Tsignal = <<>>
    /\ lst_tl = <<>>
    /\ output_all = <<>>
    /\ output_states = <<>>
    /\ output_median = <<>>
    /\ output_mean = <<>>

IdleC2T ==
    /\ mdict = <<>>
    /\ train_keys = {}
    /\ lines = <<>>
    /\ c2t_pc = "idle"
    /\ temp_dict = <<>>
    /\ temp_lst = <<>>
    /\ c2t_at = <<>>

(***************************************************************************)
(* worker_hmm: the boundary rule                                           *)
(***************************************************************************)
\* x > ((model.N - 1) / 2), Python 2 integer division
IsNonA(x) == x > ((N - 1) \div 2)

RECURSIVE NonAFrom(_, _)
NonAFrom(path, i) ==
    IF i >= Len(path) THEN <<>>
    ELSE IF IsNonA(path[i + 1]) THEN <<i>> \o NonAFrom(path, i + 1)
    ELSE NonAFrom(path, i + 1)

\* [i for i, x in enumerate(states) if x > ((model.N - 1) / 2)]
non_A_index_lst(path) == NonAFrom(path, 0)

RECURSIVE ScanNonANoBreak(_, _, _, _)
ScanNonANoBreak(lst, i, s, e) ==
    IF i >= Len(lst) THEN [start_idx |-> s, end_idx |-> e]
    ELSE IF lst[i + 1] <= non_T_limit THEN ScanNonANoBreak(lst, i + 1, lst[i + 1], e)
    ELSE ScanNonANoBreak(lst, i + 1, s, lst[i + 1])

RECURSIVE ScanNonAStrict(_, _, _, _)
ScanNonAStrict(lst, i, s, e) ==
    IF i >= Len(lst) THEN [start_idx |-> s, end_idx |-> e]
    ELSE IF lst[i + 1] < non_T_limit THEN ScanNonAStrict(lst, i + 1, lst[i + 1], e)
    ELSE [start_idx |-> s, end_idx |-> lst[i + 1]]

\* for i in xrange(len(non_A_index_lst)): ... else: end_idx = ...; break
RECURSIVE ScanNonA(_, _, _, _)
ScanNonA(lst, i, s, e) ==
    IF i >= Len(lst) THEN [start_idx |-> s, end_idx |-> e]
    ELSE IF lst[i + 1] <= non_T_limit THEN ScanNonA(lst, i + 1, lst[i + 1], e)
    ELSE [start_idx |-> s, end_idx |-> lst[i + 1]]

\* end_idx = len(states); start_idx = 0; the scan; tl = end_idx - start_idx - 1
CallTail(path) ==
    LET r == ScanNonA(non_A_index_lst(path), 0, 0, Len(path))
    IN  [start_idx |-> r.start_idx, end_idx |-> r.end_idx,
         tl |-> r.end_idx - r.start_idx - 1]

(***************************************************************************)
(* worker_hmm on one line after another                                    *)
(***************************************************************************)
Paths == SeqsUpTo(0 .. (N - 1), MaxPathLen)

InitTail ==
    /\ states = <<>>
    /\ hmm_pc = "viterbi"
    /\ start_idx = 0
    /\ end_idx = 0
    /\ tl = 0

\* states = model.viterbi(...)[0]: the decoder is ghmm's, any path may come back
Viterbi ==
    /\ hmm_pc = "viterbi"
    /\ \E p \in Paths : states' = p
    /\ hmm_pc' = "decoded"
    /\ UNCHANGED <<start_idx, end_idx, tl>>
    /\ UNCHANGED <<varsC2T, varsLoop, varsDict, varsMore>>

\* if len(states) == 0: sys.exit(...)
HmmExit ==
    /\ hmm_pc = "decoded"
    /\ Len(states) = 0
    /\ hmm_pc' = "exit"
    /\ UNCHANGED <<states, start_idx, end_idx, tl>>
    /\ UNCHANGED <<varsC2T, varsLoop, varsDict, varsMore>>

HmmCall ==
    /\ hmm_pc = "decoded"
    /\ Len(states) # 0
    /\ LET r == CallTail(states)
       IN  /\ start_idx' = r.start_idx
           /\ end_idx' = r.end_idx
           /\ tl' = r.tl
    /\ hmm_pc' = "called"
    /\ UNCHANGED states
    /\ UNCHANGED <<varsC2T, varsLoop, varsDict, varsMore>>

\* for line in lines: the next line of the chunk.  states, start_idx, end_idx
\* and tl are all assigned again before they are read, so the values of the
\* line before are dropped here.
HmmNextLine ==
    /\ hmm_pc = "called"
    /\ hmm_pc' = "viterbi"
    /\ states' = <<>>
    /\ start_idx' = 0
    /\ end_idx' = 0
    /\ tl' = 0
    /\ UNCHANGED <<varsC2T, varsLoop, varsDict, varsMore>>

NextTail ==
    \/ Viterbi
    \/ HmmExit
    \/ HmmCall
    \/ HmmNextLine

InitSpecTail == InitTail /\ IdleC2T /\ IdleLoop /\ IdleDict /\ IdleMore

SpecTail == InitSpecTail /\ [][NextTail]_vars

(***************************************************************************)
(* worker_C2T on one chunk of intensity lines                              *)
(***************************************************************************)
InitC2T ==
    \E chunk \in Chunks :
        /\ lines = [n \in 1 .. Len(chunk) |-> LineOf(n, chunk[n])]
        /\ mdict = [n \in {m \in 1 .. Len(chunk) : chunk[m].known} |->
                        <<GeneOf(n), BasesOf(chunk[n].pat), "qc">>]
        /\ train_keys = {n \in 1 .. Len(chunk) : chunk[n].known /\ chunk[n].train}
        /\ c2t_pc = "start"
        /\ temp_dict = <<>>
        /\ temp_lst = <<>>
        /\ c2t_at = <<>>

\* worker_C2T(lines), start to return
RunWorkerC2T ==
    /\ c2t_pc = "start"
    /\ LET r == worker_C2T(lines, mdict, train_keys)
       IN  /\ temp_dict' = r.temp_dict
           /\ temp_lst' = r.temp_lst
    /\ c2t_at' = ReturnedAt(lines, mdict)
    /\ c2t_pc' = "returned"
    /\ UNCHANGED <<mdict, train_keys, lines>>
    /\ UNCHANGED <<varsTail, varsLoop, varsDict, varsMore>>

NextC2T == RunWorkerC2T

InitSpecC2T == InitC2T /\ InitTail /\ IdleLoop /\ IdleDict /\ IdleMore

SpecC2T == InitSpecC2T /\ [][NextC2T]_vars

(***************************************************************************)
(* worker_hmm on a chunk of T-signal lines                                 *)
(*                                                                         *)
(* A T-signal line is [no, id, gene, path]: no is its line number, id and  *)
(* gene its first two fields, and path stands for its signal fields: it is *)
(* the state path viterbi returns for them (the decoder is deterministic). *)
(***************************************************************************)
\* temp_dict.setdefault(key, value)
SetDefault(d, key, value) ==
    IF HasKey(d, key) THEN d ELSE Append(d, [key |-> key] @@ value)

RECURSIVE worker_hmm_skip(_, _, _, _)
worker_hmm_skip(ls, n, d, l) ==
    IF n > Len(ls) THEN [exc |-> FALSE, temp_dict |-> d, temp_lst |-> l]
    ELSE LET st == ls[n].path
         IN  IF Len(st) = 0
             THEN worker_hmm_skip(ls, n + 1, d, l)
             ELSE LET r == CallTail(st)
                  IN  worker_hmm_skip(ls, n + 1,
                          SetDefault(d, ls[n].id,
                                     [gene |-> ls[n].gene, tl |-> r.tl, states |-> st]),
                          Append(l, <<ls[n].gene, r.tl>>))

\* the loop of worker_hmm from line n of the chunk on; exc: sys.exit was called
RECURSIVE worker_hmm_from(_, _, _, _)
worker_hmm_from(ls, n, d, l) ==
    IF n > Len(ls) THEN [exc |-> FALSE, temp_dict |-> d, temp_lst |-> l]
    ELSE LET st == ls[n].path
         IN  IF Len(st) = 0
             THEN [exc |-> TRUE, temp_dict |-> <<>>, temp_lst |-> <<>>]
             ELSE LET r == CallTail(st)
                  IN  worker_hmm_from(ls, n + 1,
                          SetDefault(d, ls[n].id,
                                     [gene |-> ls[n].gene, tl |-> r.tl, states |-> st]),
                          Append(l, <<ls[n].gene, r.tl>>))

worker_hmm(ls) == worker_hmm_from(ls, 1, <<>>, <<>>)

(***************************************************************************)
(* The chunked loops: the conversion loop (phase "C2T") and the decoding   *)
(* loop with the aggregation after it (phase "hmm")                        *)
(***************************************************************************)
LoopPaths == <<<<0, 1, 1, 4>>, <<0, 3, 1, 2, 4>>, <<0, 1, 1>>>>

\* line n of a T-signal file: line emptyAt decodes to the empty path, line
\* dupAt repeats the id of the line before it
TsignalLine(n, emptyAt, dupAt) ==
    LET id == IF n = dupAt /\ n > 1 THEN n - 1 ELSE n
    IN  [no |-> n, id |-> id, gene |-> GeneOf(id),
         path |-> IF n = emptyAt THEN <<>> ELSE Cycle(LoopPaths, n)]

TsignalFiles ==
    {[n \in 1 .. len |-> TsignalLine(n, e, d)] :
        len \in 0 .. MaxLines, e \in 0 .. MaxLines, d \in 0 .. MaxLines}

GoodPattern == [b |-> <<"A", "C", "G", "T", "A">>, v |-> <<1, 2, 4, 2, 3>>]

BadPattern == [b |-> <<"A", "C", "G", "N", "A">>, v |-> <<2, 2, 2, 2, 2>>]

LoopSignal == <<<<1, 1, 1, 8>>, <<0, 0, 0, 0>>, <<0, 0, 0, 200>>>>

\* line n of an intensity file: the normalization of line badAt fails
IntensityLine(n, badAt) ==
    LineOf(n, [pat |-> IF n = badAt THEN BadPattern ELSE GoodPattern, sig |-> LoopSignal,
               flat |-> 0])

\* pool.map(worker, [line_lst[n:n+chunk_lines] for n in xrange(0, len(line_lst), chunk_lines)]):
\* every future is submitted before the first result is asked for
NoResult == [exc |-> FALSE, temp_dict |-> <<>>, temp_lst |-> <<>>]

ChunkedDropPartial(ls) ==
    [c \in 1 .. (Len(ls) \div chunk_lines) |->
        SubSeq(ls, (c - 1) * chunk_lines + 1, c * chunk_lines)]

Chunked(ls) ==
    [c \in 1 .. ((Len(ls) + chunk_lines - 1) \div chunk_lines) |->
        SubSeq(ls, (c - 1) * chunk_lines + 1,
               IF c * chunk_lines < Len(ls) THEN c * chunk_lines ELSE Len(ls))]

Submit(ls) ==
    LET chunks == Chunked(ls)
    IN  [c \in 1 .. Len(chunks) |->
            [chunk |-> chunks[c], status |-> "pending", result |-> NoResult]]

\* the worker function of the loop
Worker(chunk) ==
    IF phase = "C2T"
    THEN [exc |-> FALSE] @@ worker_C2T(chunk, mdict, train_keys)
    ELSE worker_hmm(chunk)

Running == {i \in 1 .. Len(futures) : futures[i].status = "running"}

ResultReadyAlways(i) == TRUE

\* future.result() of the i-th future returns (or raises) once it is done
ResultReady(i) == futures[i].status = "done"

BatchCompleteEarly == merged >= 1 \/ merged = Len(futures)

\* the for loop over the results is exhausted
BatchComplete == merged = Len(futures)

FullBatchOffByOne(c) == c % (chunk_lines * n_threads + 1) = 0

\* counting % (params['chunk_lines'] * params['n_threads']) == 0
FullBatch(c) == c % (chunk_lines * n_threads) = 0

InitLoop ==
    /\ phase \in {"C2T", "hmm"}
    /\ IF phase = "hmm"
       THEN /\ input \in TsignalFiles
            /\ mdict = <<>>
            /\ train_keys = {}
       ELSE \E len \in 0 .. MaxLines, badAt \in 0 .. MaxLines, unknownAt \in 0 .. MaxLines :
               /\ input = [n \in 1 .. len |-> IntensityLine(n, badAt)]
               /\ mdict = [n \in (1 .. len) \ {unknownAt} |->
                              <<GeneOf(n),
                                BasesOf(IF n = badAt THEN BadPattern ELSE GoodPattern),
                                "qc">>]
               /\ train_keys = {n \in (1 .. len) \ {unknownAt} : n % 2 = 1}
    /\ nread = 0
    /\ line_lst = <<>>
    /\ counting = 0
    /\ futures = <<>>
    /\ merged = 0
    /\ batch_no = 0
    /\ loop_pc = "read"
    /\ train_set = <<>>
    /\ output_Tsignal = <<>>
    /\ lst_tl = <<>>
    /\ output_all = <<>>
    /\ output_states = <<>>
    /\ output_median = <<>>
    /\ output_mean = <<>>
    /\ lines = <<>>
    /\ c2t_pc = "idle"
    /\ temp_dict = <<>>
    /\ temp_lst = <<>>
    /\ c2t_at = <<>>

\* line = readline(); line_lst.append(line); counting += 1; on a full batch
\* the pool is made and pool.map submits the chunks
ReadLine ==
    /\ loop_pc = "read"
    /\ nread < Len(input)
    /\ nread' = nread + 1
    /\ LET lst == Append(line_lst, input[nread + 1])
       IN  /\ line_lst' = lst
           /\ counting' = counting + 1
           /\ IF FullBatch(counting + 1)
              THEN /\ futures' = Submit(lst)
                   /\ merged' = 0
                   /\ batch_no' = batch_no + 1
                   /\ loop_pc' = "batch"
              ELSE UNCHANGED <<futures, merged, batch_no, loop_pc>>
    /\ UNCHANGED <<phase, input, varsOut, varsTail, varsC2T, varsDict, varsMore>>

\* if not line: the rest of line_lst is submitted
ReadEOF ==
    /\ loop_pc = "read"
    /\ nread = Len(input)
    /\ futures' = Submit(line_lst)
    /\ merged' = 0
    /\ batch_no' = batch_no + 1
    /\ loop_pc' = "last_batch"
    /\ UNCHANGED <<phase, input, nread, line_lst, counting, varsOut, varsTail, varsC2T, varsDict, varsMore>>

\* a process of the pool takes the next call of the queue
WorkerStart(i) ==
    /\ futures[i].status = "pending"
    /\ \A j \in 1 .. (i - 1) : futures[j].status # "pending"
    /\ Cardinality(Running) < n_threads
    /\ futures' = [futures EXCEPT ![i].status = "running"]
    /\ UNCHANGED <<phase, input, nread, line_lst, counting, merged, batch_no, loop_pc,
                   varsOut, varsTail, varsC2T, varsDict, varsMore>>

\* the worker function returns, or exits: its result or exception is sent back
WorkerFinish(i) ==
    /\ futures[i].status = "running"
    /\ futures' = [futures EXCEPT ![i].status = "done",
                                  ![i].result = Worker(futures[i].chunk)]
    /\ UNCHANGED <<phase, input, nread, line_lst, counting, merged, batch_no, loop_pc,
                   varsOut, varsTail, varsC2T, varsDict, varsMore>>

TsignalOut(d) == [i \in 1 .. Len(d) |-> [id |-> d[i].key, gene |-> d[i].gene, all_T |-> d[i].all_T]]

AllOut(d) == [i \in 1 .. Len(d) |-> [gene |-> d[i].gene, id |-> d[i].key, tl |-> d[i].tl]]

StatesOut(d) == [i \in 1 .. Len(d) |-> [id |-> d[i].key, states |-> d[i].states]]

\* for (d, l) in futures: the next result is merged
Merge ==
    /\ loop_pc \in {"batch", "last_batch"}
    /\ merged < Len(futures)
    /\ ResultReady(merged + 1)
    /\ ~futures[merged + 1].result.exc
    /\ LET r == futures[merged + 1].result
       IN  IF phase = "C2T"
           THEN /\ train_set' = train_set \o r.temp_lst
                /\ output_Tsignal' = output_Tsignal \o TsignalOut(r.temp_dict)
                /\ UNCHANGED <<lst_tl, output_all, output_states>>
           ELSE /\ lst_tl' = lst_tl \o r.temp_lst
                /\ output_all' = output_all \o AllOut(r.temp_dict)
                /\ output_states' = output_states \o StatesOut(r.temp_dict)
                /\ UNCHANGED <<train_set, output_Tsignal>>
    /\ merged' = merged + 1
    /\ UNCHANGED <<phase, input, nread, line_lst, counting, futures, batch_no, loop_pc,
                   output_median, output_mean, varsTail, varsC2T, varsDict, varsMore>>

\* the next result raises the worker's SystemExit in the main process: the
\* result iterator cancels the futures still pending
MergeRaise ==
    /\ loop_pc \in {"batch", "last_batch"}
    /\ merged < Len(futures)
    /\ ResultReady(merged + 1)
    /\ futures[merged + 1].result.exc
    /\ futures' = [i \in 1 .. Len(futures) |->
                      IF futures[i].status = "pending"
                      THEN [futures[i] EXCEPT !.status = "cancelled"]
                      ELSE futures[i]]
    /\ loop_pc' = "exiting"
    /\ UNCHANGED <<phase, input, nread, line_lst, counting, merged, batch_no,
                   varsOut, varsTail, varsC2T, varsDict, varsMore>>

\* the with block ends (the pool is shut down); line_lst = []; counting = 0
EndBatch ==
    /\ loop_pc = "batch"
    /\ BatchComplete
    /\ line_lst' = <<>>
    /\ counting' = 0
    /\ loop_pc' = "read"
    /\ UNCHANGED <<phase, input, nread, futures, merged, batch_no, varsOut,
                   varsTail, varsC2T, varsDict, varsMore>>

\* break, and the files of the loop are closed
EndLoop ==
    /\ loop_pc = "last_batch"
    /\ BatchComplete
    /\ loop_pc' = "after"
    /\ UNCHANGED <<phase, input, nread, line_lst, counting, futures, merged, batch_no,
                   varsOut, varsTail, varsC2T, varsDict, varsMore>>

\* the exception leaves the with block, which waits for the running workers,
\* and ends the script
Exit ==
    /\ loop_pc = "exiting"
    /\ Running = {}
    /\ loop_pc' = "aborted"
    /\ UNCHANGED <<phase, input, nread, line_lst, counting, futures, merged, batch_no,
                   varsOut, varsTail, varsC2T, varsDict, varsMore>>

\* mdict.clear() after the conversion loop
CloseConversion ==
    /\ loop_pc = "after"
    /\ phase = "C2T"
    /\ mdict' = <<>>
    /\ loop_pc' = "done"
    /\ UNCHANGED <<phase, input, nread, line_lst, counting, futures, merged, batch_no,
                   varsOut, varsTail, train_keys, lines, c2t_pc, temp_dict, temp_lst,
                   c2t_at, varsDict, varsMore>>

RECURSIVE SetToSeq(_)
SetToSeq(S) ==
    IF S = {} THEN <<>>
    ELSE LET x == CHOOSE y \in S : TRUE
         IN  <<x>> \o SetToSeq(S \ {x})

\* dict_tl[gene]: the tail lengths of the pairs of lst_tl with that gene
dict_tl(gene) ==
    LET own == SelectSeq(lst_tl, LAMBDA pair : pair[1] = gene)
    IN  [i \in 1 .. Len(own) |-> own[i][2]]

\* for key in dict_tl: one line per gene with the median (mean) of its tail
\* lengths and their number; the line carries the values it is computed from
GeneTable ==
    LET genes == SetToSeq({lst_tl[i][1] : i \in 1 .. Len(lst_tl)})
    IN  [g \in 1 .. Len(genes) |->
            [gene |-> genes[g], values |-> dict_tl(genes[g]),
             count |-> Len(dict_tl(genes[g]))]]

\* the aggregation by gene after the decoding loop
Aggregate ==
    /\ loop_pc = "after"
    /\ phase = "hmm"
    /\ output_median' = GeneTable
    /\ output_mean' = GeneTable
    /\ loop_pc' = "done"
    /\ UNCHANGED <<phase, input, nread, line_lst, counting, futures, merged, batch_no,
                   train_set, output_Tsignal, lst_tl, output_all, output_states,
                   varsTail, varsC2T, varsDict, varsMore>>

NextLoop ==
    \/ ReadLine
    \/ ReadEOF
    \/ \E i \in 1 .. Len(futures) : WorkerStart(i)
    \/ \E i \in 1 .. Len(futures) : WorkerFinish(i)
    \/ Merge
    \/ MergeRaise
    \/ EndBatch
    \/ EndLoop
    \/ Exit
    \/ CloseConversion
    \/ Aggregate

InitSpecLoop == InitLoop /\ InitTail /\ IdleDict /\ IdleMore

SpecLoop == InitSpecLoop /\ [][NextLoop]_vars

(***************************************************************************)
(* The master dictionary, built from the read-to-gene stream               *)
(*                                                                         *)
(* A line of the stream is taken as the pair <<idx, gene>> the script      *)
(* reads from it.                                                          *)
(***************************************************************************)
StreamGenes == {"geneA", "geneB"}

InitDict ==
    /\ mdict = <<>>
    /\ dict_dup = {}
    /\ stream_seen = <<>>
    /\ dict_pc = "reading"
    /\ counting = 0

\* if idx in mdict: dict_dup[idx] = None
AddDup(md, dup, idx) == IF idx \in DOMAIN md THEN dup \cup {idx} ELSE dup

\* else: mdict[idx] = [gene]
AddGene(md, idx, gene) ==
    IF idx \in DOMAIN md THEN md
    ELSE [k \in DOMAIN md \cup {idx} |-> IF k = idx THEN <<gene>> ELSE md[k]]

\* for key in dict_dup: del mdict[key]
DelDup(md, dup) == [k \in DOMAIN md \ dup |-> md[k]]

\* line = proc3.stdout.readline() returned a line
ReadPair ==
    /\ dict_pc = "reading"
    /\ counting < MaxStream
    /\ \E idx \in 1 .. MaxIdx, gene \in StreamGenes :
           /\ dict_dup' = AddDup(mdict, dict_dup, idx)
           /\ mdict' = AddGene(mdict, idx, gene)
           /\ stream_seen' = Append(stream_seen, <<idx, gene>>)
    /\ counting' = counting + 1
    /\ UNCHANGED <<dict_pc, varsTail, train_keys, lines, c2t_pc, temp_dict, temp_lst, c2t_at>>
    /\ UNCHANGED <<phase, input, nread, line_lst, futures, merged, batch_no, loop_pc, varsOut>>
    /\ UNCHANGED varsMore

\* the stream has ended: break, then the reads of dict_dup are deleted
EndOfStream ==
    /\ dict_pc = "reading"
    /\ mdict' = DelDup(mdict, dict_dup)
    /\ dict_pc' = "built"
    /\ UNCHANGED <<dict_dup, stream_seen, varsTail, train_keys, lines, c2t_pc, temp_dict,
                   temp_lst, c2t_at, varsLoop>>
    /\ UNCHANGED varsMore

NextDict ==
    \/ ReadPair
    \/ EndOfStream

InitSpecDict ==
    /\ InitDict
    /\ InitTail
    /\ train_keys = {}
    /\ lines = <<>>
    /\ c2t_pc = "idle"
    /\ temp_dict = <<>>
    /\ temp_lst = <<>>
    /\ c2t_at = <<>>
    /\ phase = "idle"
    /\ input = <<>>
    /\ nread = 0
    /\ line_lst = <<>>
    /\ futures = <<>>
    /\ merged = 0
    /\ batch_no = 0
    /\ loop_pc = "idle"
    /\ train_set = <<>>
    /\ output_Tsignal = <<>>
    /\ lst_tl = <<>>
    /\ output_all = <<>>
    /\ output_states = <<>>
    /\ output_median = <<>>
    /\ output_mean = <<>>
    /\ IdleMore

SpecDict == InitSpecDict /\ [][NextDict]_vars

(***************************************************************************)
(* The choice of the training set                                          *)
(*                                                                         *)
(* Mode 1 draws keys of mdict (or of sele_dict, the fish / human reads of  *)
(* it); mode 2 draws lines of the T-signal file (or of the file awk        *)
(* filtered from it), whose number it estimates from the size of the file  *)
(* and of its first line.  A pool is given by its number of records; a     *)
(* file has line_size bytes in its first line and rest_size bytes in every *)
(* later one.                                                              *)
(***************************************************************************)
Min2(a, b) == IF a <= b THEN a ELSE b

Max2(a, b) == IF a >= b THEN a ELSE b

TrainSizeNoMin(P, ratio) == Min2((P * ratio) \div 100, training_max)

\* min(max(int(P * ratio), training_min), training_max), ratio in hundredths
TrainSize(P, ratio) == Min2(Max2((P * ratio) \div 100, training_min), training_max)

\* f.seek(0, 2); f.tell()
FileSize(n) == IF n = 0 THEN 0 ELSE line_size + (n - 1) * rest_size

\* f.readline(); f.tell()
FirstLineSize(n) == IF n = 0 THEN 0 ELSE line_size

PoolSizes == (0 .. (training_min + 2)) \cup {PoolStep * k : k \in 1 .. MaxPoolSteps}

Restricted == {"fish", "human"}

InitTrain ==
    /\ run_mode \in {1, 2}
    /\ args_t \in Restricted \cup {"all"}
    /\ training_ratio = training_ratio_0
    /\ all_P \in PoolSizes
    /\ sele_P \in {n \in PoolSizes : n <= all_P}
    /\ IF run_mode = 2
       THEN line_size \in 2 .. MaxLineSize /\ rest_size \in 2 .. MaxLineSize
       ELSE line_size = 0 /\ rest_size = 0
    /\ n_train_lines = 0
    /\ picked_from = "none"
    /\ T_lines = 0
    /\ train_pc = "select"

\* random.sample(population, n) raises ValueError when n > len(population)
Sampled(n, population) == IF n > population THEN "error" ELSE "picked"

\* mode 1, if args.t in ['fish', 'human']
Mode1Restricted ==
    /\ run_mode = 1
    /\ train_pc = "select"
    /\ args_t \in Restricted
    /\ IF sele_P >= training_min
       THEN /\ n_train_lines' = TrainSize(sele_P, training_ratio * 10)
            /\ train_pc' = Sampled(n_train_lines', sele_P)
            /\ picked_from' = "sele"
            /\ UNCHANGED args_t
       ELSE /\ args_t' = "all"
            /\ train_pc' = "fellback"
            /\ UNCHANGED <<n_train_lines, picked_from>>
    /\ UNCHANGED <<run_mode, training_ratio, sele_P, all_P, line_size, rest_size, T_lines>>
    /\ UNCHANGED <<varsCore, varsStart, varsSampler>>

\* mode 1, if args.t == 'all'
Mode1All ==
    /\ run_mode = 1
    /\ train_pc \in {"select", "fellback"}
    /\ args_t = "all"
    /\ IF all_P >= training_min
       THEN /\ n_train_lines' = TrainSize(all_P, training_ratio)
            /\ train_pc' = Sampled(n_train_lines', all_P)
            /\ picked_from' = "all"
       ELSE /\ train_pc' = "exit"
            /\ UNCHANGED <<n_train_lines, picked_from>>
    /\ UNCHANGED <<run_mode, args_t, training_ratio, sele_P, all_P, line_size, rest_size,
                   T_lines>>
    /\ UNCHANGED <<varsCore, varsStart, varsSampler>>

\* mode 2, if args.t in ['fish', 'human']
Mode2Restricted ==
    /\ run_mode = 2
    /\ train_pc = "select"
    /\ args_t \in Restricted
    /\ IF FirstLineSize(sele_P) # 0
          /\ FileSize(sele_P) \div FirstLineSize(sele_P) > training_min
       THEN /\ T_lines' = FileSize(sele_P) \div FirstLineSize(sele_P)
            /\ training_ratio' = 10
            /\ train_pc' = "estimated"
            /\ UNCHANGED args_t
       ELSE /\ args_t' = "all"
            /\ train_pc' = "fellback"
            /\ UNCHANGED <<T_lines, training_ratio>>
    /\ UNCHANGED <<run_mode, sele_P, all_P, line_size, rest_size, n_train_lines, picked_from>>
    /\ UNCHANGED <<varsCore, varsStart, varsSampler>>

\* mode 2, if args.t == 'all': a division by zero on an empty file
Mode2All ==
    /\ run_mode = 2
    /\ train_pc \in {"select", "fellback"}
    /\ args_t = "all"
    /\ IF FirstLineSize(all_P) = 0
       THEN /\ train_pc' = "error"
            /\ UNCHANGED T_lines
       ELSE /\ T_lines' = FileSize(all_P) \div FirstLineSize(all_P)
            /\ train_pc' = "estimated"
    /\ UNCHANGED <<run_mode, args_t, training_ratio, sele_P, all_P, line_size, rest_size,
                   n_train_lines, picked_from>>
    /\ UNCHANGED <<varsCore, varsStart, varsSampler>>

\* mode 2: n_train_lines is computed and lines_sampler draws that many
\* offsets of the file
Mode2Pick ==
    /\ run_mode = 2
    /\ train_pc = "estimated"
    /\ n_train_lines' = TrainSize(T_lines, training_ratio)
    /\ picked_from' = IF args_t \in Restricted THEN "sele" ELSE "all"
    /\ train_pc' = Sampled(n_train_lines',
                           FileSize(IF args_t \in Restricted THEN sele_P ELSE all_P))
    /\ UNCHANGED <<run_mode, args_t, training_ratio, sele_P, all_P, line_size, rest_size,
                   T_lines>>
    /\ UNCHANGED <<varsCore, varsStart, varsSampler>>

NextTrain ==
    \/ Mode1Restricted
    \/ Mode1All
    \/ Mode2Restricted
    \/ Mode2All
    \/ Mode2Pick

InitSpecTrain ==
    InitTrain /\ InitTail /\ IdleC2T /\ IdleLoop /\ IdleDict /\ IdleStart /\ IdleSampler

SpecTrain == InitSpecTrain /\ [][NextTrain]_vars

(***************************************************************************)
(* The start of a run: the mode, the checks of the inputs, and the order   *)
(* in which output files are created and processing steps run.             *)
(*                                                                         *)
(* A step is one block of the script; what it computes is modelled in the  *)
(* sections above, here only its place in the run is kept.                 *)
(***************************************************************************)
FileArgs == {"f1", "f2", "b", "r", "i", "s", "m"}

\* the arguments fread is applied to
ReadArgs == {"f1", "f2", "i", "s"}

\* all([args.f1, args.f2, args.b, args.r, args.i])
Mode1Inputs == {"f1", "f2", "b", "r", "i"}

Mode ==
    IF "m" \in args_given THEN 3
    ELSE IF "s" \in args_given THEN 2 ELSE 1

\* fread(file): sys.exit("Wrong file type to read: " + file)
WrongType(arg) == arg \in bad_type

InitStart ==
    /\ args_given \in SUBSET FileArgs
    /\ s_exists \in BOOLEAN
    /\ "s" \notin args_given => ~s_exists
    /\ bad_type \in SUBSET (args_given \cap ReadArgs)
    /\ created = {}
    /\ steps_run = {}
    /\ exit_msg = ""
    /\ start_pc = "start"

Goto(pc) == start_pc' = pc /\ UNCHANGED exit_msg

SysExit(msg) == start_pc' = "exit" /\ exit_msg' = msg

StartFrame == UNCHANGED <<args_given, s_exists, bad_type, varsCore, varsTrain, varsSampler>>

\* if not args.m / if not args.s / if not all([...]): sys.exit
Dispatch ==
    /\ start_pc = "start"
    /\ IF Mode = 1
       THEN IF Mode1Inputs \subseteq args_given
            THEN Goto("m1_log")
            ELSE SysExit("Missing input files!")
       ELSE IF Mode = 2 THEN Goto("m2_log") ELSE Goto("m3_load")
    /\ UNCHANGED <<created, steps_run>>
    /\ StartFrame

\* mode 1: f_log = make_log_file(prefix + 'log.txt', ...)
MakeLog1 ==
    /\ start_pc = "m1_log"
    /\ created' = created \cup {"log"}
    /\ Goto("m1_dict")
    /\ UNCHANGED steps_run
    /\ StartFrame

\* mode 1: the intersection with the annotation and the master dictionary
MasterDict ==
    /\ start_pc = "m1_dict"
    /\ steps_run' = steps_run \cup {"master_dict"}
    /\ Goto("m1_filter")
    /\ UNCHANGED created
    /\ StartFrame

\* mode 1: the poly(A) filter on read 2, skipped unless check_pa_tail
FilterRead2 ==
    /\ start_pc = "m1_filter"
    /\ IF ~check_pa_tail
       THEN Goto("m1_read1") /\ UNCHANGED <<created, steps_run>>
       ELSE IF WrongType("f2")
            THEN SysExit("Wrong file type to read") /\ UNCHANGED <<created, steps_run>>
            ELSE /\ created' = created \cup {"no_tail_read2"}
                 /\ steps_run' = steps_run \cup {"filter"}
                 /\ Goto("m1_read1")
    /\ StartFrame

\* mode 1: r1 = fread(r1), read 1 added to the dictionary, training keys
AddRead1 ==
    /\ start_pc = "m1_read1"
    /\ IF WrongType("f1")
       THEN SysExit("Wrong file type to read") /\ UNCHANGED steps_run
       ELSE steps_run' = steps_run \cup {"read1"} /\ Goto("m1_convert")
    /\ UNCHANGED created
    /\ StartFrame

\* mode 1: r2_intensity = fread(r2_intensity), output_Tsignal = open(...),
\* the conversion loop
Conversion ==
    /\ start_pc = "m1_convert"
    /\ IF WrongType("i")
       THEN SysExit("Wrong file type to read") /\ UNCHANGED <<created, steps_run>>
       ELSE /\ created' = created \cup {"Tsignal"}
            /\ steps_run' = steps_run \cup {"convert"}
            /\ Goto("train")
    /\ StartFrame

\* mode 2: f_log = make_log_file(prefix + 'hmm_only_log.txt', ...)
MakeLog2 ==
    /\ start_pc = "m2_log"
    /\ created' = created \cup {"log"}
    /\ Goto("m2_check")
    /\ UNCHANGED steps_run
    /\ StartFrame

\* mode 2: if not os.path.isfile(args.s): sys.exit
CheckSignal2 ==
    /\ start_pc = "m2_check"
    /\ IF s_exists THEN Goto("m2_select") ELSE SysExit("Error! No Tsignal file found!")
    /\ UNCHANGED <<created, steps_run>>
    /\ StartFrame

\* mode 2: the training set is sampled, from the T-signal file itself
\* (fread(Tsignal_file)) or from the file awk wrote of its fish / human lines
SampleSignal ==
    /\ start_pc = "m2_select"
    /\ \E restricted \in BOOLEAN :
           IF restricted
           THEN /\ created' = created \cup {"sele_Tsignal"}
                /\ steps_run' = steps_run \cup {"select"}
                /\ Goto("train")
           ELSE IF WrongType("s")
                THEN SysExit("Wrong file type to read") /\ UNCHANGED <<created, steps_run>>
                ELSE /\ steps_run' = steps_run \cup {"select"}
                     /\ Goto("train")
                     /\ UNCHANGED created
    /\ StartFrame

\* modes 1 and 2: the model is built, trained and written
Train ==
    /\ start_pc = "train"
    /\ created' = created \cup {"model"}
    /\ steps_run' = steps_run \cup {"train"}
    /\ Goto("outputs")
    /\ StartFrame

\* mode 3: the model is loaded, the log is made, the model is written
LoadModel ==
    /\ start_pc = "m3_load"
    /\ created' = created \cup {"log", "model"}
    /\ Goto("m3_check")
    /\ UNCHANGED steps_run
    /\ StartFrame

\* mode 3: if not os.path.isfile(args.s): sys.exit
CheckSignal3 ==
    /\ start_pc = "m3_check"
    /\ IF s_exists THEN Goto("outputs") ELSE SysExit("Error! No Tsignal file found!")
    /\ UNCHANGED <<created, steps_run>>
    /\ StartFrame

\* output_all, output_states, output_median, output_mean = open(..., 'w')
OpenOutputs ==
    /\ start_pc = "outputs"
    /\ created' = created \cup {"all_tails", "hmm_states", "median_tails", "mean_tails"}
    /\ Goto("decode")
    /\ UNCHANGED steps_run
    /\ StartFrame

\* Tsignal_input = fread(Tsignal_file), the decoding loop, the aggregation
Decode ==
    /\ start_pc = "decode"
    /\ IF Mode # 1 /\ WrongType("s")
       THEN SysExit("Wrong file type to read") /\ UNCHANGED steps_run
       ELSE steps_run' = steps_run \cup {"decode"} /\ Goto("done")
    /\ UNCHANGED created
    /\ StartFrame

NextStart ==
    \/ Dispatch
    \/ MakeLog1
    \/ MasterDict
    \/ FilterRead2
    \/ AddRead1
    \/ Conversion
    \/ MakeLog2
    \/ CheckSignal2
    \/ SampleSignal
    \/ Train
    \/ LoadModel
    \/ CheckSignal3
    \/ OpenOutputs
    \/ Decode

InitSpecStart ==
    InitStart /\ InitTail /\ IdleC2T /\ IdleLoop /\ IdleDict /\ IdleTrain /\ IdleSampler

SpecStart == InitSpecStart /\ [][NextStart]_vars

(***************************************************************************)
(* lines_sampler                                                           *)
(*                                                                         *)
(* The file is the sequence of its lines' sizes in bytes (newline          *)
(* included); byte offsets are 0-based, lines are numbered from 1.         *)
(***************************************************************************)
RECURSIVE Bytes(_, _)
\* the bytes of the first j lines
Bytes(fl, j) == IF j = 0 THEN 0 ELSE fl[j] + Bytes(fl, j - 1)

\* f.seek(0, 2); f.tell()
filesize(fl) == Bytes(fl, Len(fl))

\* the line the byte at offset off belongs to
LineAt(fl, off) ==
    CHOOSE j \in 1 .. Len(fl) : Bytes(fl, j - 1) <= off /\ off < Bytes(fl, j)

\* f.seek(off); f.readline(); line = f.readline(): the number of the line
\* read, 0 for the empty string readline returns at the end of the file
LineReadAfter(fl, off) ==
    IF LineAt(fl, off) < Len(fl) THEN LineAt(fl, off) + 1 ELSE 0

\* sorted(S) as a sequence
RECURSIVE sorted(_)
sorted(S) ==
    IF S = {} THEN <<>>
    ELSE LET least == CHOOSE x \in S : \A y \in S : x <= y
         IN  <<least>> \o sorted(S \ {least})

InitSampler ==
    /\ file_lines \in SeqsUpTo(1 .. MaxLineSize, MaxFileLines)
    /\ n_lines_sample \in 1 .. MaxSample
    /\ random_set = <<>>
    /\ sample = <<>>
    /\ sample_i = 0
    /\ sampler_pc = "start"

SamplerFrame == UNCHANGED <<file_lines, n_lines_sample, varsCore, varsTrain, varsStart>>

\* random.sample(xrange(filesize), n_lines_sample): ValueError when the
\* sample is larger than the population
DrawOffsets ==
    /\ sampler_pc = "start"
    /\ IF n_lines_sample > filesize(file_lines)
       THEN /\ sampler_pc' = "error"
            /\ UNCHANGED random_set
       ELSE /\ \E S \in SUBSET (0 .. (filesize(file_lines) - 1)) :
                   /\ Cardinality(S) = n_lines_sample
                   /\ random_set' = sorted(S)
            /\ sampler_pc' = "loop"
    /\ UNCHANGED <<sample, sample_i>>
    /\ SamplerFrame

\* one round of for i in xrange(n_lines_sample)
SampleLine ==
    /\ sampler_pc = "loop"
    /\ sample_i < n_lines_sample
    /\ LET line == LineReadAfter(file_lines, random_set[sample_i + 1])
       IN  sample' = IF line # 0 THEN Append(sample, line) ELSE sample
    /\ sample_i' = sample_i + 1
    /\ UNCHANGED <<random_set, sampler_pc>>
    /\ SamplerFrame

\* return sample
SamplerReturn ==
    /\ sampler_pc = "loop"
    /\ sample_i = n_lines_sample
    /\ sampler_pc' = "returned"
    /\ UNCHANGED <<random_set, sample, sample_i>>
    /\ SamplerFrame

NextSampler ==
    \/ DrawOffsets
    \/ SampleLine
    \/ SamplerReturn

InitSpecSampler ==
    InitSampler /\ InitTail /\ IdleC2T /\ IdleLoop /\ IdleDict /\ IdleTrain /\ IdleStart

SpecSampler == InitSpecSampler /\ [][NextSampler]_vars

(***************************************************************************)
(* Claims about the boundary rule (SpecTail)                               *)
(***************************************************************************)
SetMax(S) == CHOOSE x \in S : \A y \in S : y <= x

SetMin(S) == CHOOSE x \in S : \A y \in S : x <= y

\* the Python indices of the path whose state is a non-A state (3 or 4)
NonAIndices(path) == {i \in 0 .. (Len(path) - 1) : path[i + 1] \in {3, 4}}

\* C1: for every non-empty decoded path, tl = end_idx - start_idx - 1 with
\* 0 <= start_idx < end_idx <= len(path), so tl >= 0, and start_idx is the
\* largest non-A index that is <= non_T_limit, or 0 when there is none.
C1_TailLength ==
    hmm_pc = "called" =>
        /\ tl = end_idx - start_idx - 1
        /\ 0 <= start_idx
        /\ start_idx < end_idx
        /\ end_idx <= Len(states)
        /\ tl >= 0
        /\ LET early == {i \in NonAIndices(states) : i <= non_T_limit}
           IN  start_idx = IF early = {} THEN 0 ELSE SetMax(early)

\* a path with a non-A state inside the limit, one past it before the end,
\* and a tail between them
C1_Witness ==
    /\ hmm_pc = "called"
    /\ start_idx > 0
    /\ end_idx < Len(states)
    /\ tl > 0

\* C2: end_idx is the smallest non-A index > non_T_limit (later non-A
\* positions change nothing, and start_idx stays within the limit), or the
\* length of the path when no non-A index is > non_T_limit.
C2_EndIdx ==
    hmm_pc = "called" =>
        LET late == {i \in NonAIndices(states) : i > non_T_limit}
        IN  /\ end_idx = IF late = {} THEN Len(states) ELSE SetMin(late)
            /\ start_idx <= non_T_limit

\* a path with two non-A states past the limit: the scan stopped at the first
C2_Witness ==
    /\ hmm_pc = "called"
    /\ Cardinality({i \in NonAIndices(states) : i > non_T_limit}) >= 2
    /\ end_idx < SetMax(NonAIndices(states))

\* a path with no non-A state past the limit: end_idx is the path length
C2_WitnessDefault ==
    /\ hmm_pc = "called"
    /\ NonAIndices(states) # {}
    /\ end_idx = Len(states)

(***************************************************************************)
(* Claims about Convert2T and worker_C2T (SpecC2T)                         *)
(***************************************************************************)
\* the lines of the chunk whose idx is in mdict: Convert2T runs on these
Known == {n \in 1 .. Len(lines) : lines[n].idx \in DOMAIN mdict}

\* the number of signal-region positions whose four intensities are all 0
AllZeroCount(line) ==
    Cardinality({k \in 1 .. Len(SignalRegion(line)) :
                    SignalRegion(line)[k] = <<0, 0, 0, 0>>})

\* every channel has a window position where its base was called with a
\* strictly positive intensity
NormComplete(line) ==
    \A key \in Keys :
        \E i \in r1_nor_start .. r1_nor_end :
            /\ mdict[line.idx][2][i] = key
            /\ line.r1[i][Channel(key)] > 0

Entries(idx) == {i \in 1 .. Len(temp_dict) : temp_dict[i].key = idx}

\* C3: every vector Convert2T returns starts with bound*100 and holds, after
\* it, only defined numbers within [-bound, bound], imputed ones included.
C3_VectorInBounds ==
    c2t_pc = "returned" =>
        \A i \in 1 .. Len(temp_dict) :
            LET all_T == temp_dict[i].all_T
            IN  /\ Len(all_T) >= 1
                /\ all_T[1] = Num(bound * 100)
                /\ \A k \in 2 .. Len(all_T) :
                       /\ all_T[k].kind = "num"
                       /\ -bound <= all_T[k].v
                       /\ all_T[k].v <= bound

C5_NormalizationShortCircuit ==
    c2t_pc = "returned" =>
        /\ \A n \in Known :
               ~NormComplete(lines[n]) =>
                   /\ c2t_at[n] = "normalize"
                   /\ Entries(lines[n].idx) = {}
        /\ Len(temp_lst) <=
               Cardinality({n \in Known : lines[n].idx \in train_keys
                                          /\ NormComplete(lines[n])})
        /\ \A m \in Known :
               (NormComplete(lines[m]) /\ AllZeroCount(lines[m]) < all_zero_limit) =>
                   /\ Entries(lines[m].idx) # {}
                   /\ lines[m].idx \in train_keys =>
                          \E j \in 1 .. Len(temp_lst) :
                              \E i \in Entries(lines[m].idx) :
                                  temp_lst[j] = temp_dict[i].all_T

\* a training record whose normalization fails, followed by one converted
C5_Witness ==
    /\ c2t_pc = "returned"
    /\ Len(lines) = 2
    /\ Known = {1, 2}
    /\ ~NormComplete(lines[1])
    /\ 1 \in train_keys
    /\ Len(SignalRegion(lines[1])) > 0
    /\ AllZeroCount(lines[1]) = 0
    /\ c2t_at = <<"normalize", "end">>
    /\ Len(SignalRegion(lines[2])) > 0
    /\ Entries(lines[2].idx) # {}
    /\ Len(temp_lst) = 1

\* the values of the signal region before the imputation
Converted(line) ==
    LET dv == dict_value(line, mdict[line.idx][2])
        region == SignalRegion(line)
    IN  [k \in 1 .. Len(region) |-> ConvertPosition(region[k], dv)]

\* C6: every missing position k of an accepted record holds the mean of the
\* values at k-L .. k+L (clipped to the sequence) that were not missing
\* before the imputation began.
C6_SymmetricWindowMean ==
    c2t_pc = "returned" =>
        \A i \in 1 .. Len(temp_dict) :
            LET line == lines[temp_dict[i].key]
                before == Converted(line)
            IN  \A k \in 0 .. (Len(before) - 1) :
                    before[k + 1].kind = "empty" =>
                        temp_dict[i].all_T[k + 2] =
                            Mean(NotEmpty(SlidingSymmetric(before, k)))

\* every intensity of read 1 is the same constant k > 0
IsFlat(line) ==
    /\ line.r1[1][1] > 0
    /\ \A i \in 1 .. r1_len : \A ch \in 1 .. 4 : line.r1[i][ch] = line.r1[1][1]

\* C15: for a record whose window holds every base and whose intensities are
\* all one constant k > 0, the normalization value of every channel is k, and
\* every signal position (k, k, k, k) is converted to log2(1/3) (rounded down:
\* -2), strictly inside [-bound, bound].
C15_ConstantIntensity ==
    c2t_pc = "returned" =>
        \A n \in Known :
            (IsFlat(lines[n]) /\ NormComplete(lines[n])) =>
                LET k == lines[n].r1[1][1]
                    dv == dict_value(lines[n], mdict[lines[n].idx][2])
                    region == SignalRegion(lines[n])
                IN  /\ \A key \in Keys : dv[key].c > 0 /\ dv[key].s = k * dv[key].c
                    /\ \A j \in 1 .. Len(region) :
                           region[j] = <<k, k, k, k>> =>
                               /\ ConvertPosition(region[j], dv) = Num(-2)
                               /\ -bound < -2
                               /\ -2 < bound
                               /\ \A i \in Entries(lines[n].idx) :
                                      temp_dict[i].all_T[j + 1] = Num(-2)

C15_Witness ==
    /\ c2t_pc = "returned"
    /\ \E n \in Known :
           /\ IsFlat(lines[n])
           /\ NormComplete(lines[n])
           /\ lines[n].r1[1][1] >= 2
           /\ Len(SignalRegion(lines[n])) >= 2
           /\ \A j \in 1 .. Len(SignalRegion(lines[n])) :
                  SignalRegion(lines[n])[j] = <<lines[n].r1[1][1], lines[n].r1[1][1],
                                                lines[n].r1[1][1], lines[n].r1[1][1]>>
           /\ \E i \in Entries(lines[n].idx) : Len(temp_dict[i].all_T) >= 3

(***************************************************************************)
(* Claims about the chunked loops (SpecLoop)                               *)
(***************************************************************************)
AllReturned == \A i \in 1 .. Len(futures) : futures[i].status = "done"

\* the accumulators the merge extends and the files it writes
accumulators == <<train_set, output_Tsignal, lst_tl, output_all, output_states>>

\* C7: in both loops no further line is read and no further batch is handed
\* to the pool until every worker of the batch before has returned and its
\* result has been merged.
C7_BatchBarrier ==
    [][(nread' # nread \/ batch_no' # batch_no) =>
           (AllReturned /\ merged = Len(futures))]_vars

\* a worker of the second batch runs, the first batch merged and written
C7_Witness ==
    /\ batch_no = 2
    /\ loop_pc = "batch"
    /\ Running # {}
    /\ Len(output_all) >= chunk_lines * n_threads

EmptyPathHit ==
    \E i \in 1 .. Len(futures) : futures[i].status = "done" /\ futures[i].result.exc

\* C9: an empty state path aborts the run: a run that gets to the tables has
\* met no empty path (the record is not skipped), after the failure no line
\* is read and no batch is dispatched, and the per-gene tables stay unwritten.
C9_EmptyPathAborts ==
    /\ [](/\ EmptyPathHit =>
                /\ loop_pc \notin {"after", "done"}
                /\ output_median = <<>>
                /\ output_mean = <<>>
          /\ (phase = "hmm" /\ loop_pc \in {"after", "done"}) =>
                \A n \in 1 .. Len(input) : Len(input[n].path) # 0
          /\ loop_pc = "aborted" =>
                /\ EmptyPathHit
                /\ output_median = <<>>
                /\ output_mean = <<>>)
    /\ [][EmptyPathHit => (nread' = nread /\ batch_no' = batch_no)]_vars

\* the run was aborted in its second batch: the first batch is written, the
\* lines after the second were never read
C9_Witness ==
    /\ loop_pc = "aborted"
    /\ batch_no = 2
    /\ Len(output_all) > 0
    /\ nread < Len(input)

\* C17: the buffer of lines read and not yet merged never holds more than
\* chunk_lines * n_threads lines, no worker invocation gets more than
\* chunk_lines lines, and no batch has more than n_threads invocations.
C17_BoundedBatch ==
    /\ Len(line_lst) <= chunk_lines * n_threads
    /\ Len(line_lst) = counting
    /\ Len(futures) <= n_threads
    /\ \A i \in 1 .. Len(futures) : Len(futures[i].chunk) <= chunk_lines

\* a full batch in flight: n_threads invocations of chunk_lines lines each
C17_Witness ==
    /\ loop_pc = "batch"
    /\ Len(line_lst) = chunk_lines * n_threads
    /\ Len(futures) = n_threads
    /\ \A i \in 1 .. Len(futures) : Len(futures[i].chunk) = chunk_lines
    /\ Cardinality(Running) = n_threads

RECURSIVE Flatten(_)
\* the chunks of a batch, one after the other
Flatten(fs) == IF Len(fs) = 0 THEN <<>> ELSE fs[1].chunk \o Flatten(Tail(fs))

BatchLines == chunk_lines * n_threads

\* C18: the batches partition the input: batch k hands the workers exactly
\* the lines after the first (k-1) full batches up to the line read last, a
\* batch before the last is a full one, every invocation runs once, and a
\* loop that ends has read and handed out every line.
C18_EveryLineOnce ==
    /\ [][batch_no' # batch_no =>
              /\ batch_no' = batch_no + 1
              /\ Flatten(futures') = SubSeq(input, batch_no * BatchLines + 1, nread')
              /\ \A i \in 1 .. Len(futures') : futures'[i].status = "pending"
              /\ \/ nread' = batch_no' * BatchLines /\ loop_pc' = "batch"
                 \/ nread' = Len(input) /\ loop_pc' = "last_batch"]_vars
    /\ [][batch_no' = batch_no =>
              /\ Len(futures') = Len(futures)
              /\ \A i \in 1 .. Len(futures) :
                     /\ futures'[i].chunk = futures[i].chunk
                     /\ futures'[i].status # futures[i].status =>
                            <<futures[i].status, futures'[i].status>> \in
                                {<<"pending", "running">>, <<"running", "done">>,
                                 <<"pending", "cancelled">>}]_vars
    /\ [](loop_pc \in {"after", "done"} =>
              /\ nread = Len(input)
              /\ \A i \in 1 .. Len(futures) : futures[i].status = "done"
              /\ Flatten(futures) =
                     SubSeq(input, (batch_no - 1) * BatchLines + 1, Len(input)))

\* a loop over full batches and a trailing partial one has ended
C18_Witness ==
    /\ loop_pc = "done"
    /\ batch_no >= 2
    /\ Len(input) % BatchLines # 0
    /\ Len(futures) >= 1
    /\ nread = Len(input)

RECURSIVE SumCounts(_)
SumCounts(table) == IF Len(table) = 0 THEN 0 ELSE table[1].count + SumCounts(Tail(table))

\* C19: after a decoding run that ended, the per-read tail-length table, the
\* state-path table and the read counts of the per-gene tables agree.
C19_TablesAgree ==
    (phase = "hmm" /\ loop_pc = "done") =>
        /\ Len(output_all) = Len(output_states)
        /\ Len(output_all) = SumCounts(output_median)
        /\ Len(output_all) = SumCounts(output_mean)

(***************************************************************************)
(* Claims about the master dictionary (SpecDict)                           *)
(***************************************************************************)
\* the distinct genes idx was seen with
GenesSeenWith(idx) ==
    {stream_seen[i][2] : i \in {j \in 1 .. Len(stream_seen) : stream_seen[j][1] = idx}}

\* C10: once the stream is consumed mdict holds exactly the identifiers seen
\* with a single distinct gene, each mapped to that gene.
C10_SingleGeneKept ==
    dict_pc = "built" =>
        /\ DOMAIN mdict = {idx \in 1 .. MaxIdx : Cardinality(GenesSeenWith(idx)) = 1}
        /\ \A idx \in DOMAIN mdict : GenesSeenWith(idx) = {mdict[idx][1]}

\* what the code keeps: the identifiers seen on exactly one line
C10_SingleLineKept ==
    dict_pc = "built" =>
        /\ DOMAIN mdict =
               {idx \in 1 .. MaxIdx :
                   Cardinality({j \in 1 .. Len(stream_seen) : stream_seen[j][1] = idx}) = 1}
        /\ \A idx \in DOMAIN mdict : GenesSeenWith(idx) = {mdict[idx][1]}

(***************************************************************************)
(* Claims about the choice of the training set (SpecTrain)                 *)
(***************************************************************************)
\* P * ratio (in hundredths) rounded down, raised to training_min, capped at
\* training_max
ExpectedSize(P, ratio) ==
    LET share == CHOOSE q \in 0 .. (P * ratio) : 100 * q <= P * ratio /\ P * ratio < 100 * (q + 1)
        raised == IF share < training_min THEN training_min ELSE share
    IN  IF raised > training_max THEN training_max ELSE raised

\* the records of the pool the training set was drawn from
PickedPool == IF picked_from = "sele" THEN sele_P ELSE all_P

\* the size the script takes that pool to have
PoolEstimate ==
    IF run_mode = 1 THEN PickedPool
    ELSE FileSize(PickedPool) \div FirstLineSize(PickedPool)

\* C11 (as stated): a training set drawn from a pool of P >= training_min
\* records has min(max(int(P * training_ratio), training_min), training_max)
\* records, for the full and for the restricted pools, in mode 1 and 2.
C11_TrainingSize ==
    (train_pc = "picked" /\ PickedPool >= training_min) =>
        n_train_lines = ExpectedSize(PickedPool, training_ratio_0)

\* C11 (amended): the size is computed from the pool size the script uses (in
\* mode 2 the estimate file size / first line size) and, for a restricted
\* pool, from ten times the ratio in mode 1 and from the ratio 0.1 in mode 2.
C11_TrainingSizeTenFold ==
    (train_pc = "picked" /\ PickedPool >= training_min) =>
        n_train_lines =
            ExpectedSize(PoolEstimate,
                      IF picked_from = "all" THEN training_ratio_0
                      ELSE IF run_mode = 1 THEN 10 * training_ratio_0 ELSE 10)

C11_Witness ==
    /\ train_pc = "picked"
    /\ picked_from = "sele"
    /\ PickedPool >= training_min
    /\ n_train_lines > training_min
    /\ n_train_lines < training_max
    /\ n_train_lines # ExpectedSize(PickedPool, training_ratio_0)

\* C12: a training set is never drawn from a pool of fewer than training_min
\* records: a restricted pool that small is given up for the full pool, and
\* with a full pool that small the run ends without a training set.
C12_FallbackOrExit ==
    /\ (train_pc \in {"estimated", "picked"} /\ args_t \in Restricted) =>
           sele_P >= training_min
    /\ train_pc = "picked" => PickedPool >= training_min
    /\ (all_P < training_min /\ train_pc \notin {"select", "fellback", "estimated"}) =>
           train_pc \in {"exit", "error"}

(***************************************************************************)
(* Claims about the start of a run (SpecStart)                             *)
(***************************************************************************)
InputErrors ==
    {"Missing input files!", "Error! No Tsignal file found!", "Wrong file type to read"}

\* C13: a run that ends on a missing input file or on a file of unreadable
\* type has run no processing step and created no output file.
C13_InputErrorBeforeAnything ==
    (start_pc = "exit" /\ exit_msg \in InputErrors) => (steps_run = {} /\ created = {})

Mode1InputsNoF2 == {"f1", "b", "r", "i"}

\* C14: a mode 1 run given -r, -b, -f1 and -i but no -f2, with check_pa_tail
\* False, does not exit with 'Missing input files!'.
C14_Read2Optional ==
    (Mode = 1 /\ ~check_pa_tail /\ Mode1InputsNoF2 \subseteq args_given /\ "f2" \notin args_given) =>
        exit_msg # "Missing input files!"

(***************************************************************************)
(* Claims about lines_sampler (SpecSampler)                                *)
(***************************************************************************)
\* C16: every line of the file is appended to the sample for some byte
\* offset, and the function returns exactly n_lines_sample records.
C16_EveryLineExactCount ==
    sampler_pc = "returned" =>
        /\ \A j \in 1 .. Len(file_lines) :
               \E off \in 0 .. (filesize(file_lines) - 1) :
                   LineReadAfter(file_lines, off) = j
        /\ Len(sample) = n_lines_sample

====
